---------------------------- MODULE Spec2Model ----------------------------
(***************************************************************************)
(* A model of the GAIA evaluation harness:                                 *)
(*   src/agents/agent.py  strip_answer, SimpleGeminiAgent.__call__ and the *)
(*                        ratelimit decorators stacked on it               *)
(*   src/api.py           GAIAHFAPIClient (get_questions, submit_answers)  *)
(*   src/app.py           run_and_submit_all, run_and_submit_one           *)
(*                                                                         *)
(* Three specifications share the variables:                               *)
(*   Spec       one run of run_and_submit_all / run_and_submit_one         *)
(*   SpecAgent  a sequence of invocations of one agent on a simulated clock*)
(*   SpecStrip  strip_answer applied to bounded texts                      *)
(*                                                                         *)
(* Python strings that the code takes apart (response texts, answers, raw  *)
(* response bodies) are sequences of one-character strings; strings that   *)
(* the code only passes along (ids, user names, error texts) are TLA+      *)
(* strings.  Python's None is the value None below.                        *)
(***************************************************************************)
EXTENDS Integers, Sequences, FiniteSets, TLC

VARIABLES
    \* ---- strip_answer (SpecStrip)
    text,               \* the argument of strip_answer
    answer,             \* its result
    answer2,            \* the result of strip_answer on that result
    spc,                \* "input" | "done" | "again"
    \* ---- one run (Spec)
    pc,                 \* position of the run
    mode,               \* "all" (run_and_submit_all) | "one" (run_and_submit_one)
    profile,            \* the login profile, or None
    questions,          \* questions_data once fetched
    idx,                \* index of the next item of the for loop
    results_log,        \* results_log
    answers_payload,    \* answers_payload
    ret,                \* what the run returned: [status, table]
    exc,                \* the exception that ended the run, or None
    posts,              \* history: the payloads POSTed to /submit
    fetches,            \* history: number of GETs of /questions
    fetched,            \* history: what the GET of /questions did
    invoked,            \* history: the items the agent was invoked on
    failed,             \* history: number of invocations that raised
    outcome,            \* history: what the POST to /submit did
    \* ---- the agent and its rate limiter (SpecAgent)
    now,                \* the clock (time.time())
    last_reset,         \* RateLimitDecorator.last_reset
    num_calls,          \* RateLimitDecorator.num_calls
    minute_start,       \* self.minute_start
    tokens_this_minute, \* self.tokens_this_minute
    token_count,        \* self.token_count
    apc,                \* "idle" | "generating"
    calls,              \* number of invocations made so far
    starts,             \* history: <<time>> of each start of the body, last 60 units
    recorded,           \* history: <<time, costs recorded then>>, last 60 units
    last,               \* history: what the limiter and the gate last did
    last_cost,          \* history: total_token_count of the last completed call
    result,             \* history: how the generation call of the last invocation ended
    issued              \* history: when the last two calls gated with token_count > TPM were issued

stripVars == <<text, answer, answer2, spc>>
runVars   == <<pc, mode, profile, questions, idx, results_log, answers_payload,
               ret, exc, posts, fetches, fetched, invoked, failed, outcome>>
agentVars == <<now, last_reset, num_calls, minute_start, tokens_this_minute,
               token_count, apc, calls, starts, recorded, last, last_cost,
               result, issued>>
vars      == <<stripVars, runVars, agentVars>>

\* None where a string may stand, and where an object may stand.
None == "None"
NoneRec == [type |-> "NoneType"]

Min(a, b) == IF a < b THEN a ELSE b
Max(a, b) == IF a > b THEN a ELSE b

(***************************************************************************)
(* Strings as sequences of characters.                                     *)
(***************************************************************************)

\* The literal "FINAL ANSWER:" of strip_answer.
MARKER == <<"F", "I", "N", "A", "L", " ", "A", "N", "S", "W", "E", "R", ":">>

\* The characters str.strip() removes (those that occur in the texts below).
Whitespace == {" ", "\n"}

\* s[i:] and s[:j] of Python, on 1-based sequences.
From(s, i) == SubSeq(s, i, Len(s))
Upto(s, j) == SubSeq(s, 1, Min(j, Len(s)))

\* s.find(sep) searching from position i: the least position >= i at which
\* sep occurs in s, or 0 when there is none.
Find(s, sep, i) ==
    LET hits == {k \in i..(Len(s) - Len(sep) + 1) :
                    SubSeq(s, k, k + Len(sep) - 1) = sep}
    IN  IF hits = {} THEN 0 ELSE CHOOSE k \in hits : \A m \in hits : k <= m

\* sep in s
Contains(s, sep) == Find(s, sep, 1) # 0

\* s.split(sep): the pieces between the non-overlapping occurrences of sep,
\* found left to right.
RECURSIVE Split(_, _)
Split(s, sep) ==
    LET k == Find(s, sep, 1)
    IN  IF k = 0 THEN <<s>>
        ELSE <<SubSeq(s, 1, k - 1)>> \o Split(From(s, k + Len(sep)), sep)

\* s.lstrip(), s.rstrip(), s.strip()
RECURSIVE LStrip(_)
LStrip(s) == IF s # <<>> /\ Head(s) \in Whitespace THEN LStrip(Tail(s)) ELSE s

RECURSIVE RStrip(_)
RStrip(s) ==
    IF s # <<>> /\ s[Len(s)] \in Whitespace THEN RStrip(SubSeq(s, 1, Len(s) - 1))
    ELSE s

Strip(s) == RStrip(LStrip(s))

\* Mutants of strip_answer.
strip_answer_rstrip_only(a) ==
    RStrip(IF Contains(a, MARKER) THEN Split(a, MARKER)[2] ELSE a)

strip_answer_maxsplit(a) ==
    Strip(IF Contains(a, MARKER) THEN From(a, Find(a, MARKER, 1) + Len(MARKER)) ELSE a)

strip_answer_raw_segment(a) ==
    IF Contains(a, MARKER) THEN Split(a, MARKER)[2] ELSE Strip(a)

\* strip_answer(answer)
strip_answer(a) ==
    Strip(IF Contains(a, MARKER) THEN Split(a, MARKER)[2] ELSE a)

(***************************************************************************)
(* Bounds and input sets.                                                  *)
(***************************************************************************)

\* Texts are concatenations of at most MaxParts of the Parts.
MaxParts == 4

\* The pieces texts are built from: the marker, its two halves (so that a
\* marker can also arise across a boundary, and broken markers occur),
\* whitespace and answer characters.
Parts ==
    { MARKER,
      <<"F", "I", "N", "A", "L">>,
      <<" ", "A", "N", "S", "W", "E", "R", ":">>,
      <<" ">>,
      <<"\n">>,
      <<"4", "2">> }

RECURSIVE Concat(_)
Concat(ps) == IF ps = <<>> THEN <<>> ELSE Head(ps) \o Concat(Tail(ps))

Texts == { Concat(ps) : ps \in UNION { [1..n -> Parts] : n \in 0..MaxParts } }

(***************************************************************************)
(* SpecStrip: strip_answer on every text.                                  *)
(***************************************************************************)

RunIdle ==
    /\ pc = "off" /\ mode = "all" /\ profile = NoneRec /\ questions = <<>>
    /\ idx = 1 /\ results_log = <<>> /\ answers_payload = <<>>
    /\ ret = <<>> /\ exc = NoneRec /\ posts = <<>> /\ fetches = 0
    /\ fetched = NoneRec
    /\ invoked = <<>> /\ failed = 0 /\ outcome = NoneRec

AgentIdle ==
    /\ now = 0 /\ last_reset = 0 /\ num_calls = 0 /\ minute_start = 0
    /\ tokens_this_minute = 0 /\ token_count = 0 /\ apc = "idle"
    /\ calls = 0 /\ starts = <<>> /\ recorded = <<>> /\ last = [step |-> "init"]
    /\ last_cost = 0
    /\ result = "none"
    /\ issued = <<>>

StripIdle == text = <<>> /\ answer = <<>> /\ answer2 = <<>> /\ spc = "off"

InitStrip ==
    /\ text \in Texts
    /\ answer = <<>>
    /\ answer2 = <<>>
    /\ spc = "input"
    /\ RunIdle
    /\ AgentIdle

StripAnswer ==
    /\ spc = "input"
    /\ answer' = strip_answer(text)
    /\ spc' = "done"
    /\ UNCHANGED <<text, answer2, runVars, agentVars>>

\* strip_answer applied to its own result.
StripAgain ==
    /\ spc = "done"
    /\ answer2' = strip_answer(answer)
    /\ spc' = "again"
    /\ UNCHANGED <<text, answer, runVars, agentVars>>

NextStrip == StripAnswer \/ StripAgain

SpecStrip == InitStrip /\ [][NextStrip]_vars

(***************************************************************************)
(* Exceptions.  An exception is a record with its class (type), its text   *)
(* (str(e)) and, for an HTTPError, the response it carries.                *)
(***************************************************************************)

\* The classes an exception of class c is an instance of (requests >= 2.27,
\* where requests.exceptions.JSONDecodeError derives from RequestException).
Ancestors(c) ==
    CASE c = "HTTPError"        -> {"HTTPError", "RequestException", "Exception"}
      [] c = "Timeout"          -> {"Timeout", "RequestException", "Exception"}
      [] c = "ConnectionError"  -> {"ConnectionError", "RequestException", "Exception"}
      [] c = "JSONDecodeError"  -> {"JSONDecodeError", "RequestException", "Exception"}
      [] c = "RequestException" -> {"RequestException", "Exception"}
      [] OTHER                  -> {c, "Exception"}

IsInstance(e, c) == c \in Ancestors(e.type)

Raise(c, t) == [type |-> c, text |-> t]

(***************************************************************************)
(* Responses of the scoring service.  A body is its raw text and what      *)
(* response.json() makes of it: an object (a record of the str() of its    *)
(* values), an array, or invalid (json() raises JSONDecodeError).          *)
(***************************************************************************)

\* dict.get(key, default)
Get(obj, key, default) == IF key \in DOMAIN obj THEN obj[key] ELSE default

\* response.text[:500] keeps this many characters.
ResponseCut == 500

\* One more than ResponseCut characters that are not JSON.
LongText == [i \in 1..(ResponseCut + 1) |-> IF i = ResponseCut + 1 THEN "!" ELSE "x"]

ScoreBody ==
    [text |-> <<"{", "\"", "u", "s", "e", "r", "n", "a", "m", "e", "\"", ":", "\"", "a", "l", "i", "c", "e", "\"", ",", "\"", "s", "c", "o", "r", "e", "\"", ":", "8", "0", ",", "\"", "c", "o", "r", "r", "e", "c", "t", "_", "c", "o", "u", "n", "t", "\"", ":", "4", ",", "\"", "t", "o", "t", "a", "l", "_", "a", "t", "t", "e", "m", "p", "t", "e", "d", "\"", ":", "5", ",", "\"", "m", "e", "s", "s", "a", "g", "e", "\"", ":", "\"", "o", "k", "\"", "}">>,
     json |-> [kind |-> "object",
               obj |-> [username |-> <<"a", "l", "i", "c", "e">>,
                        score |-> <<"8", "0">>,
                        correct_count |-> <<"4">>,
                        total_attempted |-> <<"5">>,
                        message |-> <<"o", "k">>]]]

DetailBody ==
    [text |-> <<"{", "\"", "d", "e", "t", "a", "i", "l", "\"", ":", "\"", "b", "a", "d", " ", "f", "o", "r", "m", "a", "t", "\"", "}">>,
     json |-> [kind |-> "object",
               obj |-> [detail |-> <<"b", "a", "d", " ", "f", "o", "r", "m", "a", "t">>]]]

EmptyObjectBody ==
    [text |-> <<"{", "}">>,
     json |-> [kind |-> "object", obj |-> [x \in {} |-> <<>>]]]

ArrayBody == [text |-> <<"[", "]">>, json |-> [kind |-> "array"]]

PlainBody ==
    [text |-> <<"B", "a", "d", " ", "G", "a", "t", "e", "w", "a", "y">>,
     json |-> [kind |-> "invalid"]]

LongBody == [text |-> LongText, json |-> [kind |-> "invalid"]]

Bodies == {ScoreBody, DetailBody, EmptyObjectBody, ArrayBody, PlainBody, LongBody}

StatusCodes == {200, 422, 500}

\* What requests.post(...) can do: raise, or return a response.
PostOutcomes ==
    { [kind |-> "raise", exc |-> Raise("Timeout", <<"t", "i", "m", "e", "d", " ", "o", "u", "t">>)],
      [kind |-> "raise", exc |-> Raise("ConnectionError", <<"c", "o", "n", "n", "e", "c", "t", "i", "o", "n", " ", "r", "e", "f", "u", "s", "e", "d">>)],
      [kind |-> "raise", exc |-> Raise("TypeError", <<"n", "o", "t", " ", "s", "e", "r", "i", "a", "l", "i", "z", "a", "b", "l", "e">>)] }
    \cup
    { [kind |-> "response", status_code |-> c, body |-> b] :
        c \in StatusCodes, b \in Bodies }

\* response.raise_for_status() raises HTTPError for these.
IsErrorStatus(c) == 400 <= c /\ c < 600

\* pd.DataFrame(results_log): one row per log entry, in order.
DataFrame(log) == [type |-> "DataFrame", rows |-> log]

(***************************************************************************)
(* GAIAHFAPIClient.submit_answers                                          *)
(***************************************************************************)

\* The try block: the POST, raise_for_status, json() and the success
\* message.  Gives [ok |-> TRUE, status] or [ok |-> FALSE, exc].
SubmitTry(o) ==
    IF o.kind = "raise" THEN [ok |-> FALSE, exc |-> o.exc]
    ELSE IF IsErrorStatus(o.status_code)
    THEN [ok |-> FALSE,
          exc |-> [type |-> "HTTPError", text |-> <<>>,
                   response |-> [status_code |-> o.status_code, body |-> o.body]]]
    ELSE IF o.body.json.kind = "invalid"
    THEN [ok |-> FALSE, exc |-> Raise("JSONDecodeError", <<"E", "x", "p", "e", "c", "t", "i", "n", "g", " ", "v", "a", "l", "u", "e">>)]
    ELSE IF o.body.json.kind # "object"
    THEN [ok |-> FALSE, exc |-> Raise("AttributeError", <<"n", "o", " ", "a", "t", "t", "r", "i", "b", "u", "t", "e", " ", "g", "e", "t">>)]
    ELSE LET d == o.body.json.obj
         IN  [ok |-> TRUE,
              status |-> [template |-> "Submission Successful!",
                          username |-> Get(d, "username", <<"N", "o", "n", "e">>),
                          score |-> Get(d, "score", <<"N", "/", "A">>),
                          correct_count |-> Get(d, "correct_count", <<"?">>),
                          total_attempted |-> Get(d, "total_attempted", <<"?">>),
                          message |-> Get(d, "message", <<"N", "o", " ", "m", "e", "s", "s", "a", "g", "e", " ", "r", "e", "c", "e", "i", "v", "e", "d", ".">>)]]

\* Mutant of HTTPErrorDetail: the raw text is not cut.
HTTPErrorDetail_uncut(r) ==
    IF r.body.json.kind = "invalid"
    THEN [raised |-> FALSE, part |-> "Response", value |-> r.body.text]
    ELSE IF r.body.json.kind # "object"
    THEN [raised |-> TRUE, exc |-> Raise("AttributeError", <<"n", "o", " ", "a", "t", "t", "r", "i", "b", "u", "t", "e", " ", "g", "e", "t">>)]
    ELSE [raised |-> FALSE, part |-> "Detail",
          value |-> Get(r.body.json.obj, "detail", r.body.text)]

\* The handler of HTTPError: the status code, then the 'detail' of the
\* body (the raw text when it has none), or the first 500 characters of a
\* body that is not JSON.  error_json.get raises AttributeError, out of the
\* handler, when the body is JSON that is not an object.
HTTPErrorDetail(r) ==
    IF r.body.json.kind = "invalid"
    THEN [raised |-> FALSE, part |-> "Response", value |-> Upto(r.body.text, ResponseCut)]
    ELSE IF r.body.json.kind # "object"
    THEN [raised |-> TRUE, exc |-> Raise("AttributeError", <<"n", "o", " ", "a", "t", "t", "r", "i", "b", "u", "t", "e", " ", "g", "e", "t">>)]
    ELSE [raised |-> FALSE, part |-> "Detail",
          value |-> Get(r.body.json.obj, "detail", r.body.text)]

\* The except clauses, tried in the order written.
SubmitHandler(e, log) ==
    IF IsInstance(e, "HTTPError")
    THEN LET d == HTTPErrorDetail(e.response)
         IN  IF d.raised THEN [raised |-> TRUE, exc |-> d.exc]
             ELSE [raised |-> FALSE,
                   status |-> [template |-> "Submission Failed: Server responded with status",
                               status_code |-> e.response.status_code,
                               part |-> d.part, value |-> d.value],
                   table |-> DataFrame(log)]
    ELSE IF IsInstance(e, "Timeout")
    THEN [raised |-> FALSE,
          status |-> [template |-> "Submission Failed: The request timed out."],
          table |-> DataFrame(log)]
    ELSE IF IsInstance(e, "RequestException")
    THEN [raised |-> FALSE,
          status |-> [template |-> "Submission Failed: Network error - ", text |-> e.text],
          table |-> DataFrame(log)]
    ELSE [raised |-> FALSE,
          status |-> [template |-> "An unexpected error occurred during submission: ",
                      text |-> e.text],
          table |-> DataFrame(log)]

\* submit_answers(submission_data, results_log) when the POST does o.
submit_answers(o, log) ==
    LET t == SubmitTry(o)
    IN  IF t.ok
        THEN [raised |-> FALSE, status |-> t.status, table |-> DataFrame(log)]
        ELSE SubmitHandler(t.exc, log)

(***************************************************************************)
(* Question records and GAIAHFAPIClient.get_questions                      *)
(***************************************************************************)

\* The longest question list fetched.
MaxQuestions == 3

TaskIds == <<"task-1", "task-2", "task-3", "task-4", "task-5">>

\* The records the service may send at position i: a complete one, one with
\* no task_id, one with an empty task_id, one with no question.
ItemsAt(i) ==
    { [task_id |-> TaskIds[i], question |-> "question"],
      [task_id |-> None,       question |-> "question"],
      [task_id |-> "",         question |-> "question"],
      [task_id |-> TaskIds[i], question |-> None] }

QuestionLists ==
    UNION { { q \in [1..n -> UNION { ItemsAt(i) : i \in 1..n }] :
                \A i \in 1..n : q[i] \in ItemsAt(i) } :
            n \in 1..MaxQuestions }

\* What requests.get(questions_url) and response.json() can do.
FetchOutcomes ==
    { [kind |-> "raise", exc |-> Raise("Timeout", <<"t", "i", "m", "e", "d", " ", "o", "u", "t">>)],
      [kind |-> "raise", exc |-> Raise("ValueError", <<"b", "a", "d", " ", "u", "r", "l">>)],
      [kind |-> "status", status_code |-> 500],
      [kind |-> "invalid"],
      [kind |-> "list", data |-> <<>>] }
    \cup
    { [kind |-> "list", data |-> q] : q \in QuestionLists }

\* get_questions(): the pair (questions_data, error) it returns.
get_questions(o) ==
    LET e == CASE o.kind = "raise"   -> o.exc
               [] o.kind = "status"  -> Raise("HTTPError", <<"5", "0", "0">>)
               [] o.kind = "invalid" -> Raise("JSONDecodeError", <<"E", "x", "p", "e", "c", "t", "i", "n", "g", " ", "v", "a", "l", "u", "e">>)
               [] OTHER              -> NoneRec
    IN  IF o.kind = "list"
        THEN IF o.data = <<>>
             THEN [questions_data |-> [template |-> "Fetched questions list is empty or invalid format."],
                   error |-> None]
             ELSE [questions_data |-> o.data, error |-> "success"]
        ELSE IF IsInstance(e, "RequestException")
        THEN [questions_data |-> [template |-> "Error fetching questions: ", text |-> e.text],
              error |-> None]
        ELSE [questions_data |-> [template |-> "An unexpected error occurred fetching questions: ", text |-> e.text],
              error |-> None]

(***************************************************************************)
(* The agent as the run sees it: agent(question_text) returns              *)
(* strip_answer(response.text), or raises what the generation call raised. *)
(***************************************************************************)

\* Response texts of the generation call in a run.
RunTexts ==
    { <<"4", "2">> \o MARKER \o <<" ", "4", "2">>,
      <<" ", "7", "\n">> }

\* Exceptions of the generation call.
AgentErrors ==
    { Raise("ServerError", <<"5", "0", "3", " ", "U", "N", "A", "V", "A", "I", "L", "A", "B", "L", "E">>) }

\* "AGENT ERROR: "
AGENT_ERROR == <<"A", "G", "E", "N", "T", " ", "E", "R", "R", "O", "R", ":", " ">>

Profiles == { NoneRec, [type |-> "OAuthProfile", username |-> <<" ", "a", "l", "i", "c", "e", " ">>] }

\* `not task_id or question_text is None`
Invalid(item) == item.task_id = None \/ item.task_id = "" \/ item.question = None

AnswerEntry(item, a) == [task_id |-> item.task_id, submitted_answer |-> a]

LogRow(item, a) ==
    [task_id |-> item.task_id, question |-> item.question, submitted_answer |-> a]

(***************************************************************************)
(* Spec: one run of run_and_submit_all or run_and_submit_one.              *)
(***************************************************************************)

Init ==
    /\ pc = "start"
    /\ mode \in {"all", "one"}
    /\ profile \in Profiles
    /\ questions = <<>>
    /\ idx = 1
    /\ results_log = <<>>
    /\ answers_payload = <<>>
    /\ ret = <<>>
    /\ exc = NoneRec
    /\ posts = <<>>
    /\ fetches = 0
    /\ fetched = NoneRec
    /\ invoked = <<>>
    /\ failed = 0
    /\ outcome = NoneRec
    /\ StripIdle
    /\ AgentIdle

\* GAIAHFAPIClient(profile=profile) with no profile: __init__ returns a
\* tuple, which Python answers with TypeError; nothing catches it.
ConstructNoProfile ==
    /\ pc = "start"
    /\ profile = NoneRec
    /\ exc' = Raise("TypeError", <<"_", "_", "i", "n", "i", "t", "_", "_">>)
    /\ pc' = "raised"
    /\ UNCHANGED <<mode, profile, questions, idx, results_log, answers_payload,
                   ret, posts, fetches, fetched, invoked, failed, outcome>>
    /\ UNCHANGED <<stripVars, agentVars>>

\* GAIAHFAPIClient(profile=profile) and SimpleGeminiAgent().
Construct ==
    /\ pc = "start"
    /\ profile # NoneRec
    /\ pc' = "fetch"
    /\ UNCHANGED <<mode, profile, questions, idx, results_log, answers_payload,
                   ret, exc, posts, fetches, fetched, invoked, failed, outcome>>
    /\ UNCHANGED <<stripVars, agentVars>>

\* Mutant of FetchFails: the fetch is tried again.
FetchFails_retries(o) ==
    /\ pc = "fetch"
    /\ fetches < 2
    /\ get_questions(o).error = None
    /\ fetches' = fetches + 1
    /\ fetched' = o
    /\ UNCHANGED <<pc, mode, profile, questions, idx, results_log, answers_payload,
                   ret, exc, posts, invoked, failed, outcome>>
    /\ UNCHANGED <<stripVars, agentVars>>

\* get_questions() failed: `return questions_data, error`.
FetchFails(o) ==
    /\ pc = "fetch"
    /\ LET r == get_questions(o)
       IN  /\ r.error = None
           /\ ret' = <<r.questions_data, NoneRec>>
    /\ fetches' = fetches + 1
    /\ fetched' = o
    /\ pc' = "returned"
    /\ UNCHANGED <<mode, profile, questions, idx, results_log, answers_payload,
                   exc, posts, invoked, failed, outcome>>
    /\ UNCHANGED <<stripVars, agentVars>>

\* get_questions() gave the questions; run_and_submit_one then picks one of
\* them with random.choice.
FetchOk(o) ==
    /\ pc = "fetch"
    /\ LET r == get_questions(o)
       IN  /\ r.error # None
           /\ questions' = r.questions_data
           /\ idx' \in IF mode = "all" THEN {1} ELSE 1..Len(r.questions_data)
    /\ fetches' = fetches + 1
    /\ fetched' = o
    /\ pc' = IF mode = "all" THEN "loop" ELSE "one"
    /\ UNCHANGED <<mode, profile, results_log, answers_payload,
                   ret, exc, posts, invoked, failed, outcome>>
    /\ UNCHANGED <<stripVars, agentVars>>

\* Position after the item at idx.
AfterItem == IF mode = "all" THEN "loop" ELSE "after"

\* The loop is at an item.
AtItem == (pc = "loop" /\ idx <= Len(questions)) \/ pc = "one"

\* Mutant of IterSkip: the record with no task_id or no question gets a row
\* and an entry.
IterSkip_logs ==
    /\ pc = "loop" /\ idx <= Len(questions)
    /\ Invalid(questions[idx])
    /\ answers_payload' = Append(answers_payload, AnswerEntry(questions[idx], <<>>))
    /\ results_log' = Append(results_log, LogRow(questions[idx], <<>>))
    /\ idx' = idx + 1
    /\ UNCHANGED <<pc, mode, profile, questions,
                   ret, exc, posts, fetches, fetched, invoked, failed, outcome>>
    /\ UNCHANGED <<stripVars, agentVars>>

\* An item of the loop of run_and_submit_all with no task_id or no question:
\* `continue`.
IterSkip ==
    /\ pc = "loop" /\ idx <= Len(questions)
    /\ Invalid(questions[idx])
    /\ idx' = idx + 1
    /\ UNCHANGED <<pc, mode, profile, questions, results_log, answers_payload,
                   ret, exc, posts, fetches, fetched, invoked, failed, outcome>>
    /\ UNCHANGED <<stripVars, agentVars>>

\* Mutant of IterAnswer: the entry is put in front of the payload.
IterAnswer_prepends(t) ==
    /\ AtItem
    /\ mode = "all" => ~Invalid(questions[idx])
    /\ LET a == strip_answer(t)
       IN  /\ answers_payload' = <<AnswerEntry(questions[idx], a)>> \o answers_payload
           /\ results_log' = Append(results_log, LogRow(questions[idx], a))
    /\ invoked' = Append(invoked, idx)
    /\ idx' = idx + 1
    /\ pc' = AfterItem
    /\ UNCHANGED <<mode, profile, questions, ret, exc, posts, fetches, fetched, failed, outcome>>
    /\ UNCHANGED <<stripVars, agentVars>>

\* The agent is invoked on the item and returns: an entry and a row.
\* run_and_submit_one only logs a warning for an invalid item and goes on.
IterAnswer(t) ==
    /\ AtItem
    /\ mode = "all" => ~Invalid(questions[idx])
    /\ LET a == strip_answer(t)
       IN  /\ answers_payload' = Append(answers_payload, AnswerEntry(questions[idx], a))
           /\ results_log' = Append(results_log, LogRow(questions[idx], a))
    /\ invoked' = Append(invoked, idx)
    /\ idx' = idx + 1
    /\ pc' = AfterItem
    /\ UNCHANGED <<mode, profile, questions, ret, exc, posts, fetches, fetched, failed, outcome>>
    /\ UNCHANGED <<stripVars, agentVars>>

\* Mutant of IterError: the exception leaves the loop.
IterError_aborts(e) ==
    /\ AtItem
    /\ mode = "all" => ~Invalid(questions[idx])
    /\ invoked' = Append(invoked, idx)
    /\ failed' = failed + 1
    /\ exc' = e
    /\ pc' = "raised"
    /\ UNCHANGED <<mode, profile, questions, idx, results_log, answers_payload,
                   ret, posts, fetches, fetched, outcome>>
    /\ UNCHANGED <<stripVars, agentVars>>

\* The agent is invoked on the item and raises: a row only.
IterError(e) ==
    /\ AtItem
    /\ mode = "all" => ~Invalid(questions[idx])
    /\ results_log' = Append(results_log, LogRow(questions[idx], AGENT_ERROR \o e.text))
    /\ invoked' = Append(invoked, idx)
    /\ failed' = failed + 1
    /\ idx' = idx + 1
    /\ pc' = AfterItem
    /\ UNCHANGED <<mode, profile, questions, answers_payload, ret, exc, posts,
                   fetches, fetched, outcome>>
    /\ UNCHANGED <<stripVars, agentVars>>

\* The items are done.
ItemsDone == (pc = "loop" /\ idx > Len(questions)) \/ pc = "after"

\* submission_data
SubmissionData ==
    [username |-> Strip(profile.username), answers |-> answers_payload]

\* Mutant of ReturnEmpty: the empty payload is submitted all the same.
ReturnEmpty_submits ==
    /\ ItemsDone
    /\ answers_payload = <<>>
    /\ posts' = Append(posts, SubmissionData)
    /\ ret' = <<[template |-> "Agent did not produce any answers to submit."],
                DataFrame(results_log)>>
    /\ pc' = "returned"
    /\ UNCHANGED <<mode, profile, questions, idx, results_log, answers_payload,
                   exc, fetches, fetched, invoked, failed, outcome>>
    /\ UNCHANGED <<stripVars, agentVars>>

\* `if not answers_payload`: the run returns without submitting.
ReturnEmpty ==
    /\ ItemsDone
    /\ answers_payload = <<>>
    /\ ret' = <<[template |-> "Agent did not produce any answers to submit."],
                DataFrame(results_log)>>
    /\ pc' = "returned"
    /\ UNCHANGED <<mode, profile, questions, idx, results_log, answers_payload,
                   exc, posts, fetches, fetched, invoked, failed, outcome>>
    /\ UNCHANGED <<stripVars, agentVars>>

\* Mutant of Submit: the entries so far are submitted from inside the loop.
Submit_in_loop(o) ==
    /\ pc \in {"loop", "after"}
    /\ answers_payload # <<>>
    /\ posts' = Append(posts, SubmissionData)
    /\ outcome' = o
    /\ LET r == submit_answers(o, results_log)
       IN  IF r.raised
           THEN /\ exc' = r.exc
                /\ pc' = pc
                /\ ret' = ret
           ELSE /\ ret' = <<r.status, r.table>>
                /\ pc' = pc
                /\ exc' = exc
    /\ UNCHANGED <<mode, profile, questions, idx, results_log, answers_payload,
                   fetches, fetched, invoked, failed>>
    /\ UNCHANGED <<stripVars, agentVars>>

\* The submission: submit_answers(submission_data, results_log), whose
\* result the run returns; what submit_answers raises ends the run.
Submit(o) ==
    /\ ItemsDone
    /\ answers_payload # <<>>
    /\ posts' = Append(posts, SubmissionData)
    /\ outcome' = o
    /\ LET r == submit_answers(o, results_log)
       IN  IF r.raised
           THEN /\ exc' = r.exc
                /\ pc' = "raised"
                /\ ret' = ret
           ELSE /\ ret' = <<r.status, r.table>>
                /\ pc' = "returned"
                /\ exc' = exc
    /\ UNCHANGED <<mode, profile, questions, idx, results_log, answers_payload,
                   fetches, fetched, invoked, failed>>
    /\ UNCHANGED <<stripVars, agentVars>>

Next ==
    \/ ConstructNoProfile
    \/ Construct
    \/ \E o \in FetchOutcomes : FetchFails(o)
    \/ \E o \in FetchOutcomes : FetchOk(o)
    \/ IterSkip
    \/ \E t \in RunTexts : IterAnswer(t)
    \/ \E e \in AgentErrors : IterError(e)
    \/ ReturnEmpty
    \/ \E o \in PostOutcomes : Submit(o)

Spec == Init /\ [][Next]_vars

\* Number of occurrences of the marker in s (non-overlapping, left to right).
Occurrences(s) == Len(Split(s, MARKER)) - 1

\* The text after the first occurrence of the marker.
AfterFirst(s) == From(s, Find(s, MARKER, 1) + Len(MARKER))

\* The text between the first and the second occurrence of the marker.
BetweenFirstTwo(s) ==
    LET k1 == Find(s, MARKER, 1)
        k2 == Find(s, MARKER, k1 + Len(MARKER))
    IN  SubSeq(s, k1 + Len(MARKER), k2 - 1)

\* s has no whitespace at either end.
Trimmed(s) == s = <<>> \/ (s[1] \notin Whitespace /\ s[Len(s)] \notin Whitespace)

\* a is s with the whitespace at both ends removed: a trimmed infix of s
\* with nothing but whitespace around it.
IsStripOf(a, s) ==
    /\ Trimmed(a)
    /\ \E i \in 0..Len(s) :
          /\ i + Len(a) <= Len(s)
          /\ SubSeq(s, i + 1, i + Len(a)) = a
          /\ \A k \in (1..i) \cup ((i + Len(a) + 1)..Len(s)) : s[k] \in Whitespace

\* C9: a text holding the marker exactly once gives the text after the
\* marker, and a text without the marker gives the whole text, each with
\* the surrounding whitespace removed.
C9_StripAnswer ==
    spc = "done" =>
        /\ Occurrences(text) = 1 => IsStripOf(answer, AfterFirst(text))
        /\ Occurrences(text) = 0 => IsStripOf(answer, text)

\* C9 witness: "FINALFINAL ANSWER: 42" was stripped to "42".
C9_Witness ==
    /\ spc = "done"
    /\ text = <<"F", "I", "N", "A", "L">> \o MARKER \o <<" ", "4", "2">>
    /\ answer = <<"4", "2">>

RPM == 15
TPM == 1000000
PER_MINUTE == 60

\* The clock stops here.
MaxTime == 120

\* The number of invocations made.
MaxCalls == 17

\* Time passes in these steps between calls and during a generation call.
TickSteps == {30}

\* total_token_count of a completed generation call.
Costs == {0, 400000, 700000}

\* The entries of a history that lie within the 60 time units ending at t.
RECURSIVE Recent(_, _)
Recent(h, t) ==
    IF h = <<>> THEN <<>>
    ELSE IF Head(h)[1] > t - PER_MINUTE THEN h
    ELSE Recent(Tail(h), t)

\* The history of recorded costs with cost c recorded at time t: one entry
\* <<time, sum of the costs recorded then>> per time at which a cost was
\* recorded.
Record(h, t, c) ==
    IF c = 0 THEN h
    ELSE IF h # <<>> /\ h[Len(h)][1] = t
    THEN [h EXCEPT ![Len(h)] = <<t, h[Len(h)][2] + c>>]
    ELSE Append(h, <<t, c>>)

\* RateLimitDecorator's wrapper at time t, with last_reset lr and
\* num_calls nc.
Limits(t, lr, nc) ==
    LET period_remaining == PER_MINUTE - (t - lr)
        reset == period_remaining <= 0
        n == (IF reset THEN 0 ELSE nc) + 1
    IN  [last_reset |-> IF reset THEN t ELSE lr,
         num_calls |-> n,
         admitted |-> ~(n > RPM),
         period_remaining |-> period_remaining]

\* Mutant of WindowReset: the window is reset only after more than 60 units.
WindowReset_late(t, ms, tok) ==
    IF t - ms > 60
    THEN [minute_start |-> t, tokens_this_minute |-> 0, reset |-> TRUE]
    ELSE [minute_start |-> ms, tokens_this_minute |-> tok, reset |-> FALSE]

\* Lines 59-62: the window is reset when 60 time units have passed.
WindowReset(t, ms, tok) ==
    IF t - ms >= 60
    THEN [minute_start |-> t, tokens_this_minute |-> 0, reset |-> TRUE]
    ELSE [minute_start |-> ms, tokens_this_minute |-> tok, reset |-> FALSE]

\* Mutant of TokenGate: the tokens of the window are kept over the sleep.
TokenGate_keeps_tokens(t, ms, tok, cnt) ==
    IF tok + cnt > TPM
    THEN LET sleep_time == Max(0, 60 - (t - ms))
         IN  [minute_start |-> t + sleep_time, tokens_this_minute |-> tok,
              slept |-> TRUE, sleep_time |-> sleep_time]
    ELSE [minute_start |-> ms, tokens_this_minute |-> tok,
          slept |-> FALSE, sleep_time |-> 0]

\* Mutant of TokenGate: the gate tests the tokens of the window alone.
TokenGate_window_only(t, ms, tok, cnt) ==
    IF tok > TPM
    THEN LET sleep_time == Max(0, 60 - (t - ms))
         IN  [minute_start |-> t + sleep_time, tokens_this_minute |-> 0,
              slept |-> TRUE, sleep_time |-> sleep_time]
    ELSE [minute_start |-> ms, tokens_this_minute |-> tok,
          slept |-> FALSE, sleep_time |-> 0]

\* Lines 64-69: the token gate at time t, after the window reset.  It adds
\* the lifetime count token_count to the tokens of the window; when the sum
\* exceeds TPM the call sleeps to the end of the window and starts a new one.
TokenGate(t, ms, tok, cnt) ==
    IF tok + cnt > TPM
    THEN LET sleep_time == Max(0, 60 - (t - ms))
         IN  [minute_start |-> t + sleep_time, tokens_this_minute |-> 0,
              slept |-> TRUE, sleep_time |-> sleep_time]
    ELSE [minute_start |-> ms, tokens_this_minute |-> tok,
          slept |-> FALSE, sleep_time |-> 0]

InitAgent ==
    /\ now = 0
    /\ last_reset = 0
    /\ num_calls = 0
    /\ minute_start = 0
    /\ tokens_this_minute = 0
    /\ token_count = 0
    /\ apc = "idle"
    /\ calls = 0
    /\ starts = <<>>
    /\ recorded = <<>>
    /\ last = [step |-> "init"]
    /\ last_cost = 0
    /\ result = "none"
    /\ issued = <<>>
    /\ StripIdle
    /\ RunIdle

\* Time passes: between calls, and while a generation call is under way.
Tick(d) ==
    /\ apc \in {"idle", "generating"}
    /\ now + d <= MaxTime
    /\ now' = now + d
    /\ starts' = Recent(starts, now')
    /\ recorded' = Recent(recorded, now')
    /\ UNCHANGED <<last_reset, num_calls, minute_start, tokens_this_minute,
                   token_count, apc, calls, last, last_cost, result,
                   issued>>
    /\ UNCHANGED <<stripVars, runVars>>

\* A call arrives (or is retried) and the limiter refuses it:
\* sleep_and_retry sleeps period_remaining and will call again.
Blocked ==
    /\ \/ apc = "idle" /\ calls < MaxCalls /\ calls' = calls + 1
       \/ apc = "retrying" /\ calls' = calls
    /\ LET l == Limits(now, last_reset, num_calls)
       IN  /\ ~l.admitted
           /\ now + l.period_remaining <= MaxTime
           /\ last_reset' = l.last_reset
           /\ num_calls' = l.num_calls
           /\ now' = now + l.period_remaining
           /\ last' = [step |-> "blocked", slept |-> l.period_remaining]
    /\ starts' = Recent(starts, now')
    /\ recorded' = Recent(recorded, now')
    /\ apc' = "retrying"
    /\ result' = "none"
    /\ UNCHANGED <<minute_start, tokens_this_minute, token_count, last_cost, issued>>
    /\ UNCHANGED <<stripVars, runVars>>

\* A call arrives (or is retried) and the limiter lets it through: the
\* body runs the window reset and the token gate, sleeps if the gate says
\* so, and issues the generation call.
Admit ==
    /\ \/ apc = "idle" /\ calls < MaxCalls /\ calls' = calls + 1
       \/ apc = "retrying" /\ calls' = calls
    /\ LET l == Limits(now, last_reset, num_calls)
           w == WindowReset(now, minute_start, tokens_this_minute)
           g == TokenGate(now, w.minute_start, w.tokens_this_minute, token_count)
       IN  /\ l.admitted
           /\ now + g.sleep_time <= MaxTime
           /\ last_reset' = l.last_reset
           /\ num_calls' = l.num_calls
           /\ minute_start' = g.minute_start
           /\ tokens_this_minute' = g.tokens_this_minute
           /\ now' = now + g.sleep_time
           /\ starts' = Recent(Append(starts, <<now>>), now')
           /\ last' = [step |-> "admitted", retried |-> (apc = "retrying"),
                       reset |-> w.reset, slept |-> g.slept,
                       sleep_time |-> g.sleep_time,
                       estimate |-> token_count,
                       tokens_this_minute |-> g.tokens_this_minute,
                       num_calls |-> l.num_calls]
    /\ recorded' = Recent(recorded, now')
    /\ apc' = "generating"
    /\ result' = "none"
    /\ issued' = IF token_count > TPM
                 THEN (IF issued = <<>> THEN <<>> ELSE <<issued[Len(issued)]>>)
                      \o <<now'>>
                 ELSE issued
    /\ UNCHANGED <<token_count, last_cost>>
    /\ UNCHANGED <<stripVars, runVars>>

\* The generation call returns: its token count is added to both counters.
GenerateReturns(c) ==
    /\ apc = "generating"
    /\ tokens_this_minute' = tokens_this_minute + c
    /\ token_count' = token_count + c
    /\ recorded' = Record(recorded, now, c)
    /\ last_cost' = c
    /\ apc' = "idle"
    /\ result' = "returned"
    /\ UNCHANGED <<now, last_reset, num_calls, minute_start, calls, starts, last,
                   issued>>
    /\ UNCHANGED <<stripVars, runVars>>

\* Mutant of GenerateRaises: the failed call is charged to both counters.
GenerateRaises_records ==
    /\ apc = "generating"
    /\ apc' = "idle"
    /\ result' = "raised"
    /\ tokens_this_minute' = tokens_this_minute + 400000
    /\ token_count' = token_count + 400000
    /\ UNCHANGED <<now, last_reset, num_calls, minute_start,
                   calls, starts, recorded, last, last_cost, issued>>
    /\ UNCHANGED <<stripVars, runVars>>

\* The generation call raises: __call__ raises with it.
GenerateRaises ==
    /\ apc = "generating"
    /\ apc' = "idle"
    /\ result' = "raised"
    /\ UNCHANGED <<now, last_reset, num_calls, minute_start, tokens_this_minute,
                   token_count, calls, starts, recorded, last, last_cost, issued>>
    /\ UNCHANGED <<stripVars, runVars>>

NextAgent ==
    \/ \E d \in TickSteps : Tick(d)
    \/ Blocked
    \/ Admit
    \/ \E c \in Costs : GenerateReturns(c)
    \/ GenerateRaises

SpecAgent == InitAgent /\ [][NextAgent]_vars

(***************************************************************************)
(* Claims about the agent's gates (SpecAgent).                             *)
(***************************************************************************)

RECURSIVE SumCosts(_)
SumCosts(h) == IF h = <<>> THEN 0 ELSE Head(h)[2] + SumCosts(Tail(h))

\* C2: the costs recorded within any span of 60 time units sum to at most
\* TPM.
C2_QuotaNeverExceeded == SumCosts(recorded) <= TPM

\* C3: at most RPM bodies of __call__ start within any span of 60 time
\* units, and a call that meets a full limiter sleeps and is admitted later.
C3_RollingWindow ==
    /\ Len(starts) <= RPM
    /\ apc = "retrying" => Limits(now, last_reset, num_calls).admitted

\* C11: when a generation call has just been issued, the estimate the token
\* gate added to tokens_this_minute was the cost of the last completed call
\* (0 before the first one).
C11_EstimateIsLastCost ==
    (apc = "generating" /\ last.step = "admitted") => last.estimate = last_cost

(***************************************************************************)
(* Claims about a run (Spec).                                              *)
(***************************************************************************)

\* The questions were fetched and each has an id and a text.
AllValid == questions # <<>> /\ \A i \in DOMAIN questions : ~Invalid(questions[i])

\* The run is over: it returned or an exception ended it.
Ended == pc \in {"returned", "raised"}

IsErrorRow(row) == Upto(row.submitted_answer, Len(AGENT_ERROR)) = AGENT_ERROR

ErrorRows == {i \in DOMAIN results_log : IsErrorRow(results_log[i])}

EmptyStatus == [template |-> "Agent did not produce any answers to submit."]

\* C1: in run_and_submit_all over N questions that all have an id and a
\* text, of which K invocations raise, the loop visits every question in
\* turn and no exception leaves it; after the loop there are N log rows,
\* K of them 'AGENT ERROR: ' rows, and N-K submission entries.
C1_Isolation ==
    (mode = "all" /\ AllValid) =>
        /\ invoked = [i \in 1..(idx - 1) |-> i]
        /\ Len(results_log) = Len(invoked)
        /\ Len(answers_payload) = Len(invoked) - failed
        /\ Cardinality(ErrorRows) = failed
        /\ exc # NoneRec => posts # <<>>
        /\ pc # "loop" => /\ Len(results_log) = Len(questions)
                          /\ Len(answers_payload) = Len(questions) - failed

\* C1 witness: three questions, two failures, one entry, three rows.
C1_Witness ==
    /\ mode = "all" /\ AllValid /\ pc = "returned"
    /\ Len(questions) = 3 /\ failed = 2
    /\ Len(answers_payload) = 1 /\ Len(results_log) = 3
    /\ IsErrorRow(results_log[1]) /\ ~IsErrorRow(results_log[2])

\* C4: when the fetch succeeded and every invocation failed (or every
\* question was skipped) there is no submission entry, nothing is POSTed,
\* and the run returns the 'did not produce any answers' status with the
\* log rows.
C4_EmptyResult ==
    (questions # <<>> /\ failed = Len(invoked)) =>
        /\ answers_payload = <<>>
        /\ posts = <<>>
        /\ Len(results_log) = failed
        /\ Ended => /\ pc = "returned"
                    /\ ret = <<EmptyStatus, DataFrame(results_log)>>

\* C4 witness: two invocations, both failed, the run returned.
C4_Witness ==
    /\ pc = "returned" /\ questions # <<>>
    /\ failed = 2 /\ Len(invoked) = 2
    /\ ret[1] = EmptyStatus /\ Len(ret[2].rows) = 2

\* C5: a run POSTs at most once and at its very end; the payload holds all
\* the entries accumulated, and in run_and_submit_all every question has
\* been invoked or skipped by then.
C5_NeverPartial ==
    /\ Len(posts) <= 1
    /\ posts # <<>> =>
         /\ Ended
         /\ posts[1].answers = answers_payload
         /\ Len(answers_payload) = Len(invoked) - failed
         /\ mode = "all" =>
               /\ idx = Len(questions) + 1
               /\ \A i \in DOMAIN questions :
                      Invalid(questions[i]) \/ \E k \in DOMAIN invoked : invoked[k] = i

\* C5 witness: a list with a skipped record, a failure and one answer was
\* submitted.
C5_Witness ==
    /\ mode = "all" /\ Len(posts) = 1
    /\ Len(questions) = 3 /\ Len(posts[1].answers) = 1
    /\ failed = 1 /\ Len(invoked) = 2

\* The POST was made and answered with an HTTP error status.
HTTPErrorOutcome ==
    /\ posts # <<>>
    /\ outcome.kind = "response"
    /\ IsErrorStatus(outcome.status_code)

\* C6: whatever the POST does, submit_answers returns a status and a table
\* holding the log rows.
C6_NeverRaises ==
    posts # <<>> => (pc = "returned" /\ ret[2] = DataFrame(results_log))

C8_Classification ==
    (posts # <<>> /\ pc = "returned" /\ ~HTTPErrorOutcome) =>
        LET o == outcome
            t == ret[1].template
        IN  IF o.kind = "raise" /\ o.exc.type = "Timeout"
            THEN ret[1] = [template |-> "Submission Failed: The request timed out."]
            ELSE IF o.kind = "raise" /\ o.exc.type = "ConnectionError"
            THEN ret[1] = [template |-> "Submission Failed: Network error - ",
                           text |-> o.exc.text]
            ELSE IF o.kind = "response" /\ o.body.json.kind = "object"
            THEN t = "Submission Successful!"
            ELSE t = "An unexpected error occurred during submission: "

\* The indices below k of the records that have an id and a text, in order.
RECURSIVE ValidBefore(_)
ValidBefore(k) ==
    IF k <= 1 THEN <<>>
    ELSE IF Invalid(questions[k - 1])
         THEN ValidBefore(k - 1)
         ELSE Append(ValidBefore(k - 1), k - 1)

\* C12: in run_and_submit_all, at every point of the loop and after it, the
\* agent was invoked on exactly the records before the loop position that
\* have an id and a text, each once and in order; a record with no id or no
\* text has no log row and no submission entry, and the loop went on past it.
C12_SkipInvalid ==
    (mode = "all" /\ questions # <<>>) =>
        /\ idx \in 1..(Len(questions) + 1)
        /\ pc # "loop" => idx = Len(questions) + 1
        /\ invoked = ValidBefore(idx)
        /\ Len(results_log) = Len(invoked)
        /\ Len(answers_payload) + failed = Len(invoked)
        /\ \A k \in DOMAIN results_log :
               ~Invalid([task_id |-> results_log[k].task_id,
                         question |-> results_log[k].question])
        /\ \A k \in DOMAIN answers_payload :
               answers_payload[k].task_id \notin {None, ""}

\* C12 witness: a record with no id and a record with no text were passed
\* over, the third record was invoked, and the run ended.
C12_Witness ==
    /\ mode = "all" /\ Ended
    /\ Len(questions) = 3
    /\ questions[1].task_id = None
    /\ questions[2].question = None
    /\ ~Invalid(questions[3])
    /\ invoked = <<3>>
    /\ Len(results_log) = 1

\* The entries of the rows of log that are not 'AGENT ERROR: ' rows, in order.
RECURSIVE EntriesOf(_)
EntriesOf(log) ==
    IF log = <<>> THEN <<>>
    ELSE LET row == Head(log)
         IN  IF IsErrorRow(row)
             THEN EntriesOf(Tail(log))
             ELSE <<[task_id |-> row.task_id,
                     submitted_answer |-> row.submitted_answer]>>
                  \o EntriesOf(Tail(log))

\* C13: in run_and_submit_all, after every iteration the log rows are the
\* records with an id and a text met so far, in the order received; the rows
\* of failed invocations are as many as the failures, and the submission
\* entries are the other rows, in the same order, each with the id and the
\* answer of its row.
C13_OrderAndCorrespondence ==
    (mode = "all" /\ questions # <<>>) =>
        LET met == ValidBefore(idx)
        IN  /\ Len(results_log) = Len(met)
            /\ \A k \in DOMAIN results_log :
                   /\ results_log[k].task_id = questions[met[k]].task_id
                   /\ results_log[k].question = questions[met[k]].question
            /\ \A j, k \in DOMAIN met : j < k => met[j] < met[k]
            /\ Cardinality(ErrorRows) = failed
            /\ answers_payload = EntriesOf(results_log)

\* C13 witness: three records were invoked, the second invocation failed and
\* the other two returned different answers.
C13_Witness ==
    /\ mode = "all" /\ pc = "loop" /\ idx = 4
    /\ invoked = <<1, 2, 3>>
    /\ IsErrorRow(results_log[2])
    /\ Len(answers_payload) = 2
    /\ answers_payload[1].task_id = TaskIds[1]
    /\ answers_payload[2].task_id = TaskIds[3]
    /\ answers_payload[1].submitted_answer # answers_payload[2].submitted_answer

\* The fetch failed: the GET raised, answered with an error status or with a
\* body that is not JSON, or gave an empty list.
FetchFailed == fetched # NoneRec /\ (fetched.kind = "list" => fetched.data = <<>>)

\* The templates of the messages get_questions returns for a failed fetch.
FetchErrorTemplates ==
    { "Fetched questions list is empty or invalid format.",
      "Error fetching questions: ",
      "An unexpected error occurred fetching questions: " }

\* C14: once the fetch has failed the run is over: it returned a fetch error
\* message as its status with no table, after one fetch, no invocation of
\* the agent and no submission; an empty list gives the 'empty' message and a
\* failed GET a message with the text of its exception.
C14_FetchFailureFatal ==
    FetchFailed =>
        /\ pc = "returned"
        /\ fetches = 1
        /\ invoked = <<>> /\ results_log = <<>> /\ answers_payload = <<>>
        /\ posts = <<>>
        /\ exc = NoneRec
        /\ Len(ret) = 2 /\ ret[2] = NoneRec
        /\ ret[1].template \in FetchErrorTemplates
        /\ fetched.kind = "list" =>
               ret[1].template = "Fetched questions list is empty or invalid format."
        /\ fetched.kind = "raise" => ret[1].text = fetched.exc.text
        /\ fetched.kind \in {"status", "invalid"} =>
               ret[1].template = "Error fetching questions: "

\* C14 witness: the GET of the questions timed out and the run returned.
C14_Witness ==
    /\ FetchFailed
    /\ fetched.kind = "raise" /\ fetched.exc.type = "Timeout"
    /\ pc = "returned"
    /\ ret[1].template = "Error fetching questions: "

\* C15: strip_answer applied to a result of strip_answer gives that result
\* again, whatever the number of markers in the text.
C15_Idempotent == spc = "again" => answer2 = answer

\* C15 witness: a text with two markers and whitespace around the answer
\* between them went through strip_answer twice.
C15_Witness ==
    /\ spc = "again"
    /\ text = MARKER \o <<" ", "4", "2">> \o MARKER
    /\ answer = <<"4", "2">>
    /\ answer2 = <<"4", "2">>

\* C16: a run of run_and_submit_all with a login profile never ends by an
\* exception that nothing caught: it ends by returning a status.
C16_NoUncaughtException ==
    (mode = "all" /\ profile # NoneRec) => (pc # "raised" /\ exc = NoneRec)

\* C17: a run started with no profile returns the status 'Please Login to
\* Hugging Face with the button.' and no table, and fetches nothing, invokes
\* nothing and submits nothing.
C17_PleaseLogin ==
    (profile = NoneRec /\ pc # "start") =>
        /\ pc = "returned"
        /\ ret = <<[template |-> "Please Login to Hugging Face with the button."],
                   NoneRec>>
        /\ fetches = 0 /\ invoked = <<>> /\ posts = <<>>

\* C20: in run_and_submit_one the agent is invoked only on a record that
\* has an id and a text, and no payload sent to the scoring service holds an
\* entry with a missing id.
C20_OneSkipsInvalid ==
    mode = "one" =>
        /\ \A k \in DOMAIN invoked : ~Invalid(questions[invoked[k]])
        /\ \A p \in DOMAIN posts : \A k \in DOMAIN posts[p].answers :
               posts[p].answers[k].task_id \notin {None, ""}

\* A step in which a call passes the limiter, runs the window reset and the
\* token gate, and issues its generation call.
Invocation == apc \in {"idle", "retrying"} /\ apc' = "generating"

\* C18: at an invocation, with tok and ms the tokens and the start of the
\* window after the window-reset step and token_count the estimate of the
\* gate: when tok + token_count > TPM the call sleeps max(0, 60 - (now - ms))
\* and then tokens_this_minute = 0 and minute_start is the time after the
\* sleep; otherwise there is no sleep and both are as the reset step left
\* them.
C18_TokenGateWait ==
    [][ Invocation =>
          LET elapsed == now - minute_start >= 60
              tok     == IF elapsed THEN 0 ELSE tokens_this_minute
              ms      == IF elapsed THEN now ELSE minute_start
          IN  IF tok + token_count > TPM
              THEN /\ now' - now = Max(0, 60 - (now - ms))
                   /\ tokens_this_minute' = 0
                   /\ minute_start' = now'
              ELSE /\ now' = now
                   /\ tokens_this_minute' = tok
                   /\ minute_start' = ms ]_vars

\* C18 witness: a call made 30 units into a window holding 700000 tokens
\* slept the 30 units left and opened a new, empty window.
C18_Witness ==
    /\ apc = "generating"
    /\ last.step = "admitted" /\ last.slept /\ last.sleep_time = 30
    /\ last.estimate = 700000
    /\ tokens_this_minute = 0
    /\ minute_start = now

\* The sum of the costs of history h recorded at time t or later.
RECURSIVE SumSince(_, _)
SumSince(h, t) ==
    IF h = <<>> THEN 0
    ELSE (IF Head(h)[1] >= t THEN Head(h)[2] ELSE 0) + SumSince(Tail(h), t)

\* C19: an invocation made when now - minute_start >= 60 empties the window
\* and starts it at the call time before the token gate is evaluated: the
\* gate then tests 0 + token_count and, when it sleeps, sleeps a whole 60
\* units.  So when any generation call is issued less than 60 units have
\* passed since minute_start, and tokens_this_minute holds no more than the
\* costs recorded since minute_start.
C19_WindowReset ==
    [][ Invocation =>
          /\ now - minute_start >= 60 =>
                IF token_count > TPM
                THEN /\ now' = now + 60
                     /\ tokens_this_minute' = 0 /\ minute_start' = now'
                ELSE /\ now' = now
                     /\ tokens_this_minute' = 0 /\ minute_start' = now
          /\ minute_start' <= now'
          /\ now' - minute_start' < 60
          /\ tokens_this_minute' <= SumSince(recorded', minute_start') ]_vars

\* C19 witness: a call made 60 units after the start of a window that held
\* 400000 tokens was issued at once in a new, empty window.
C19_Witness ==
    /\ apc = "generating"
    /\ last.step = "admitted" /\ last.reset /\ ~last.slept
    /\ now = 60 /\ minute_start = 60
    /\ token_count = 400000
    /\ tokens_this_minute = 0

\* C21: once the generation call of an invocation has raised,
\* tokens_this_minute and token_count are what they were when the call was
\* issued, and the limiter still counts the call: num_calls is what it was
\* after the call was admitted, at least 1.
C21_FailedCallRecordsNothing ==
    (result = "raised" /\ last.step = "admitted") =>
        /\ apc = "idle"
        /\ tokens_this_minute = last.tokens_this_minute
        /\ token_count = last.estimate
        /\ num_calls = last.num_calls
        /\ num_calls >= 1

\* C21 witness: after a call that cost 400000 tokens, a second call of the
\* same period raised.
C21_Witness ==
    /\ result = "raised" /\ last.step = "admitted"
    /\ tokens_this_minute = 400000
    /\ token_count = 400000
    /\ num_calls = 2

\* C22: token_count never decreases and tokens_this_minute <= token_count
\* always; an invocation made with token_count > TPM sleeps to the end of
\* its 60-unit window (the window after the reset step) whatever
\* tokens_this_minute holds, and starts a new window when it issues its
\* call; so two calls in a row issued under token_count > TPM are at least
\* 60 units apart.
C22_LifetimeSaturation ==
    /\ [](tokens_this_minute <= token_count)
    /\ [][token_count' >= token_count]_vars
    /\ [][ (Invocation /\ token_count > TPM) =>
             LET ms == IF now - minute_start >= 60 THEN now ELSE minute_start
             IN  /\ now' = ms + 60
                 /\ now' > now
                 /\ minute_start' = now'
                 /\ tokens_this_minute' = 0 ]_vars
    /\ [](Len(issued) = 2 => issued[2] - issued[1] >= 60)

\* C22 witness: with token_count at 1100000 and an empty window, a call
\* made at the very start of the window slept its 60 units, as the call
\* before it had.
C22_Witness ==
    /\ apc = "generating"
    /\ issued = <<60, 120>>
    /\ token_count = 1100000
    /\ last.step = "admitted" /\ last.slept /\ last.sleep_time = 60
    /\ last.tokens_this_minute = 0

=============================================================================
